---- MODULE Spec2Model ----
(***************************************************************************)
(* Verification model of navorite/language-tools:                          *)
(*   - createVirtualTsSystem (language-server test-utils.ts): the virtual  *)
(*     file table, the watcher registry, the per-path timer lists and the  *)
(*     zero-delay notification timers;                                     *)
(*   - findNodeAtSpan and isInGeneratedCode (typescript-plugin utils.ts).  *)
(* Three specifications share the module: Spec (the virtual host),         *)
(* SpecSpan (findNodeAtSpan) and SpecGen (isInGeneratedCode).              *)
(***************************************************************************)
EXTENDS Integers, Sequences, FiniteSets, TLC

VARIABLES
    useCaseSensitiveFileNames, \* ts.sys.useCaseSensitiveFileNames of the platform
    virtualFs,      \* FileMap<string>: canonical path -> content
    watchers,       \* FileMap<callback[]>: canonical path -> callbacks, in order
    watchTimeout,   \* FileMap<timer[]>: canonical path -> timer ids, in order
    modifiedTime,   \* FileMap<Date>: canonical path -> time of last write
    timers,         \* the runtime's timers, in creation order
    handles,        \* the objects watchFile returned, in creation order
    clock,          \* the value new Date() returns
    opLog,          \* history: per timer, the operation that scheduled it
    delivered,      \* history: the callback invocations, in order
    tree,           \* SpecSpan: the syntax tree handed to findNodeAtSpan
    spanCall,       \* SpecSpan: the last findNodeAtSpan call and what it returned
    text,           \* SpecGen: the text handed to isInGeneratedCode
    genCall         \* SpecGen: the last isInGeneratedCode call and its result

hostVars == <<useCaseSensitiveFileNames, virtualFs, watchers, watchTimeout,
              modifiedTime, timers, handles, clock, opLog, delivered>>
spanVars == <<tree, spanCall>>
genVars  == <<text, genCall>>
vars     == <<hostVars, spanVars, genVars>>

----------------------------------------------------------------------------
(* Bounds *)

\* the operations of a run that schedule a notification (writeFile, deleteFile
\* of an existing file) or register a watcher (watchFile), taken together
MaxOps == 3

----------------------------------------------------------------------------
(* Paths, as sequences of characters *)

currentDirectory == <<"/", "w">>

\* the paths the operations are called with: relative, absolute, differing in
\* case, written with a backslash
RawPaths == { <<"a">>,
              <<"/", "w", "/", "a">>,
              <<"/", "w", "/", "A">>,
              <<"/", "w", "\\", "A">> }

Callbacks == {"cb1", "cb2"}

isAbsolute(path) == Len(path) > 0 /\ path[1] = "/"

join(dir, path) == dir \o <<"/">> \o path

toAbsolute(path) == IF isAbsolute(path) THEN path ELSE join(currentDirectory, path)

\* URI.file(path).fsPath.replace(/\\/g, '/')
normalizePath(path) == [i \in 1..Len(path) |-> IF path[i] = "\\" THEN "/" ELSE path[i]]

toLowerCase(c) == IF c = "A" THEN "a" ELSE IF c = "W" THEN "w" ELSE c

\* createGetCanonicalFileName(useCaseSensitiveFileNames), applied to s
getCanonicalFileName(sensitive, s) ==
    IF sensitive THEN s ELSE [i \in 1..Len(s) |-> toLowerCase(s[i])]

\* the key under which a FileMap files normalizedPath
FileMapKey(normalizedPath) == getCanonicalFileName(useCaseSensitiveFileNames, normalizedPath)

\* const normalizedPath = normalizePath(toAbsolute(path))
normalizedPathOf(path) == normalizePath(toAbsolute(path))

KeyOf(path) == FileMapKey(normalizedPathOf(path))

----------------------------------------------------------------------------
(* FileMap *)

FileMapHas(map, normalizedPath) == FileMapKey(normalizedPath) \in DOMAIN map

FileMapSet(map, normalizedPath, value) ==
    [k \in DOMAIN map \cup {FileMapKey(normalizedPath)} |->
        IF k = FileMapKey(normalizedPath) THEN value ELSE map[k]]

FileMapDelete(map, normalizedPath) ==
    [k \in DOMAIN map \ {FileMapKey(normalizedPath)} |-> map[k]]

EmptyMap == [k \in {} |-> <<>>]

Range(s) == {s[i] : i \in DOMAIN s}

Min(a, b) == IF a < b THEN a ELSE b
Max(a, b) == IF a > b THEN a ELSE b

FileMapGet(map, normalizedPath) ==
    IF FileMapHas(map, normalizedPath) THEN <<map[FileMapKey(normalizedPath)]>> ELSE <<>>

\* map.get(normalizedPath) of a FileMap of arrays, an absent entry read as no elements
ListAt(map, key) == IF key \in DOMAIN map THEN map[key] ELSE <<>>

----------------------------------------------------------------------------
(* The virtual system: initial state *)

HostInit ==
    /\ useCaseSensitiveFileNames \in BOOLEAN
    /\ virtualFs = EmptyMap
    /\ watchers = EmptyMap
    /\ watchTimeout = EmptyMap
    /\ modifiedTime = EmptyMap
    /\ timers = <<>>
    /\ handles = <<>>
    /\ clock = 0
    /\ opLog = <<>>
    /\ delivered = <<>>

----------------------------------------------------------------------------
(* Timers *)

\* a timer waits for its turn until the scheduler has passed it
Awaiting(t) == timers[t].status \in {"pending", "cleared"}

AwaitingOn(key) == {t \in DOMAIN timers : Awaiting(t) /\ FileMapKey(timers[t].path) = key}

\* setTimeout(..., 0): the new timer, queued behind the existing ones
setTimeout(queue, normalizedPath, kind) ==
    Append(queue, [path |-> normalizedPath, kind |-> kind, status |-> "pending"])

\* mutant: close() clears the pending timers of every path
clearEveryTimeout(queue, timeouts) ==
    [t \in DOMAIN queue |->
        IF queue[t].status = "pending"
        THEN [queue[t] EXCEPT !.status = "cleared"]
        ELSE queue[t]]

\* timeouts.forEach((timeout) => clearTimeout(timeout))
clearTimeouts(queue, timeouts) ==
    [t \in DOMAIN queue |->
        IF t \in Range(timeouts) /\ queue[t].status = "pending"
        THEN [queue[t] EXCEPT !.status = "cleared"]
        ELSE queue[t]]

\* mutant: the timer created last runs first
LatestTimer(queue) ==
    CHOOSE t \in DOMAIN queue :
        /\ queue[t].status \in {"pending", "cleared"}
        /\ \A u \in DOMAIN queue : queue[u].status \in {"pending", "cleared"} => u <= t

\* the timer whose turn is next: timers of equal delay run in creation order
NextTimer(queue) ==
    CHOOSE t \in DOMAIN queue :
        /\ queue[t].status \in {"pending", "cleared"}
        /\ \A u \in DOMAIN queue : queue[u].status \in {"pending", "cleared"} => t <= u

\* mutant: only the first watcher of the path is called
forFirstCallback(list, normalizedPath, kind, t) ==
    [i \in 1..Min(1, Len(list)) |->
        [cb |-> list[i], fileName |-> normalizedPath, kind |-> kind, timer |-> t]]

\* watchers.get(normalizedPath)?.forEach((callback) => callback(normalizedPath, kind))
forEachCallback(list, normalizedPath, kind, t) ==
    [i \in 1..Len(list) |->
        [cb |-> list[i], fileName |-> normalizedPath, kind |-> kind, timer |-> t]]

\* triggerWatch(normalizedPath, kind)
triggerWatch(normalizedPath, kind) ==
    /\ watchTimeout' =
          FileMapSet(watchTimeout, normalizedPath,
                     Append(ListAt(watchTimeout, FileMapKey(normalizedPath)),
                            Len(timers) + 1))
    /\ timers' = setTimeout(timers, normalizedPath, kind)

\* mutant: the two kinds exchanged
writeKindExchanged(existsBefore) == IF existsBefore THEN "Created" ELSE "Changed"

\* existsBefore ? ts.FileWatcherEventKind.Changed : ts.FileWatcherEventKind.Created
writeKind(existsBefore) == IF existsBefore THEN "Changed" ELSE "Created"

LogOp(op, key, data, time) ==
    opLog' = Append(opLog, [op |-> op, key |-> key, data |-> data, time |-> time,
                            regAtOp |-> ListAt(watchers, key),
                            added |-> <<>>, closedDuring |-> {}])

----------------------------------------------------------------------------
(* The virtual system: operations *)

\* the run may still schedule a notification or register a watcher
OpsLeft == Len(timers) + Len(handles) < MaxOps

\* new Date(): a clock that has advanced at every reading
Date == clock + 1

writeFile(path, data) ==
    LET normalizedPath == normalizePath(toAbsolute(path))
        existsBefore == FileMapHas(virtualFs, normalizedPath)
    IN  /\ OpsLeft
        /\ virtualFs' = FileMapSet(virtualFs, normalizedPath, data)
        /\ clock' = Date
        /\ modifiedTime' = FileMapSet(modifiedTime, normalizedPath, clock')
        /\ triggerWatch(normalizedPath, writeKind(existsBefore))
        /\ LogOp("writeFile", FileMapKey(normalizedPath), <<data>>, clock')
        /\ UNCHANGED <<spanVars, genVars, useCaseSensitiveFileNames, watchers, handles, delivered>>

\* mutant: the path is looked up as given
readFileAsGiven(path) == FileMapGet(virtualFs, path)

readFile(path) == FileMapGet(virtualFs, normalizePath(toAbsolute(path)))

fileExists(path) == FileMapHas(virtualFs, normalizePath(toAbsolute(path)))

getModifiedTime(path) == FileMapGet(modifiedTime, normalizePath(toAbsolute(path)))

deleteWatch(existsBefore, normalizedPath) ==
    IF existsBefore
    THEN /\ OpsLeft
         /\ triggerWatch(normalizedPath, "Deleted")
         /\ LogOp("deleteFile", FileMapKey(normalizedPath), <<>>, clock)
    ELSE UNCHANGED <<watchTimeout, timers, opLog>>

\* mutant: deleteFile prunes the timestamp table too
deleteFilePruning(path) ==
    LET normalizedPath == normalizePath(toAbsolute(path))
        existsBefore == FileMapHas(virtualFs, normalizedPath)
    IN  /\ virtualFs' = FileMapDelete(virtualFs, normalizedPath)
        /\ modifiedTime' = FileMapDelete(modifiedTime, normalizedPath)
        /\ deleteWatch(existsBefore, normalizedPath)
        /\ UNCHANGED <<spanVars, genVars, useCaseSensitiveFileNames, watchers, handles,
                       clock, delivered>>

deleteFile(path) ==
    LET normalizedPath == normalizePath(toAbsolute(path))
        existsBefore == FileMapHas(virtualFs, normalizedPath)
    IN  /\ virtualFs' = FileMapDelete(virtualFs, normalizedPath)
        /\ deleteWatch(existsBefore, normalizedPath)
        /\ UNCHANGED <<spanVars, genVars, useCaseSensitiveFileNames, watchers, modifiedTime, handles,
                       clock, delivered>>

watchFile(path, callback) ==
    LET normalizedPath == normalizePath(toAbsolute(path))
        key == FileMapKey(normalizedPath)
        watchersOfPath == ListAt(watchers, key)
    IN  /\ OpsLeft
        /\ watchers' = FileMapSet(watchers, normalizedPath, Append(watchersOfPath, callback))
        /\ handles' = Append(handles, [path |-> normalizedPath, callback |-> callback])
        /\ opLog' = [t \in DOMAIN opLog |->
                        IF t \in AwaitingOn(key)
                        THEN [opLog[t] EXCEPT !.added = Append(@, callback)]
                        ELSE opLog[t]]
        /\ UNCHANGED <<spanVars, genVars, useCaseSensitiveFileNames, virtualFs, watchTimeout, modifiedTime,
                       timers, clock, delivered>>

\* watchersOfPath.filter((watcher) => watcher === callback)
closeFilter(watchersOfPath, callback) ==
    SelectSeq(watchersOfPath, LAMBDA watcher : watcher = callback)

\* mutant: close() leaves the timers alone
closeTimeoutsNone(normalizedPath) == <<>>

\* the timers close() clears: all those of watchTimeout.get(normalizedPath)
closeTimeouts(normalizedPath) == ListAt(watchTimeout, FileMapKey(normalizedPath))

close(h) ==
    LET normalizedPath == handles[h].path
        callback == handles[h].callback
        key == FileMapKey(normalizedPath)
    IN  /\ watchers' = IF FileMapHas(watchers, normalizedPath)
                       THEN FileMapSet(watchers, normalizedPath,
                                       closeFilter(watchers[key], callback))
                       ELSE watchers
        /\ timers' = clearTimeouts(timers, closeTimeouts(normalizedPath))
        /\ opLog' = [t \in DOMAIN opLog |->
                        IF t \in AwaitingOn(key)
                        THEN [opLog[t] EXCEPT !.closedDuring = @ \cup {h}]
                        ELSE opLog[t]]
        /\ UNCHANGED <<spanVars, genVars, useCaseSensitiveFileNames, virtualFs, watchTimeout, modifiedTime,
                       handles, clock, delivered>>

\* one turn of the scheduler: the next timer runs, unless it was cleared
Tick ==
    /\ \E t \in DOMAIN timers : Awaiting(t)
    /\ LET t == NextTimer(timers)
           key == FileMapKey(timers[t].path)
       IN  IF timers[t].status = "pending"
           THEN /\ delivered' = delivered \o
                        forEachCallback(ListAt(watchers, key), timers[t].path,
                                        timers[t].kind, t)
                /\ timers' = [timers EXCEPT ![t].status = "ran"]
           ELSE /\ delivered' = delivered
                /\ timers' = [timers EXCEPT ![t].status = "skipped"]
    /\ UNCHANGED <<spanVars, genVars, useCaseSensitiveFileNames, virtualFs, watchers, watchTimeout,
                   modifiedTime, handles, clock, opLog>>

\* a query: it returns a value and assigns to no table
Query(result) ==
    /\ result = result
    /\ UNCHANGED <<spanVars, genVars, useCaseSensitiveFileNames, virtualFs, watchers, watchTimeout,
                   modifiedTime, timers, handles, clock, opLog, delivered>>

\* the content of a write: every write brings a text not written before
Contents == {<<"text", Len(opLog) + 1>>}

WriteFile == \E path \in RawPaths, data \in Contents : writeFile(path, data)
DeleteFile == \E path \in RawPaths : deleteFile(path)
WatchFile == \E path \in RawPaths, callback \in Callbacks : watchFile(path, callback)
Close == \E h \in DOMAIN handles : close(h)
ReadFile == \E path \in RawPaths : Query(readFile(path))
FileExists == \E path \in RawPaths : Query(fileExists(path))
GetModifiedTime == \E path \in RawPaths : Query(getModifiedTime(path))

----------------------------------------------------------------------------
(* findNodeAtSpan: syntax trees.  A node is its range [start, end), its kind *)
(* and its children in getChildren() order; a node of the tree is named by   *)
(* the child indices that lead to it from the root.                          *)

\* the positions of a text run from 0 to MaxPos
MaxPos == 2
\* a tree has at most this many nodes below its root
MaxNodes == 3

Kinds == {"Identifier", "Other"}

\* no predicate, or a type guard such as ts.isIdentifier
Predicates == {"none", "Identifier"}

Accepts(predicate, node) == predicate = "none" \/ node.kind = predicate

RECURSIVE NodeCount(_)
NodeCount(forest) ==
    IF forest = <<>> THEN 0
    ELSE 1 + NodeCount(Head(forest).children) + NodeCount(Tail(forest))

\* the sibling lists of at most n nodes in all, within [lo, hi], whose starts
\* strictly increase and whose ranges do not overlap, children within parents
RECURSIVE Forests(_, _, _)
Forests(n, lo, hi) ==
    IF n = 0 \/ lo > hi THEN {<<>>}
    ELSE {<<>>} \cup UNION {
            UNION { { <<[start |-> r[1], end |-> r[2], kind |-> k, children |-> cs]>> \o rest :
                        rest \in Forests(n - 1 - NodeCount(cs), Max(r[2], r[1] + 1), hi) } :
                    cs \in Forests(n - 1, r[1], r[2]), k \in Kinds } :
            r \in {q \in (lo..hi) \X (lo..hi) : q[1] <= q[2]} }

Trees ==
    {[start |-> 0, end |-> MaxPos, kind |-> "SourceFile", children |-> f] :
        f \in Forests(MaxNodes, 0, MaxPos)}

\* findNodeAtSpan returned nothing
Nothing == <<0>>

RECURSIVE findNodeAtSpan(_, _, _, _), forChildren(_, _, _, _, _),
          forChildrenReturning(_, _, _, _, _)

\* mutant: a child that ends before the span ends the scan (return for continue)
forChildrenReturning(node, start, end, predicate, i) ==
    IF i > Len(node.children) THEN Nothing
    ELSE LET child == node.children[i]
         IN  IF end <= child.start THEN Nothing
             ELSE IF start >= child.end THEN Nothing
             ELSE IF start = child.start /\ end = child.end /\ Accepts(predicate, child)
                  THEN <<i>>
             ELSE LET foundInChildren == findNodeAtSpan(child, start, end - start, predicate)
                  IN  IF foundInChildren # Nothing
                      THEN <<i>> \o foundInChildren
                      ELSE forChildrenReturning(node, start, end, predicate, i + 1)

\* for (const child of node.getChildren()) { ... }, from the i-th child on
forChildren(node, start, end, predicate, i) ==
    IF i > Len(node.children) THEN Nothing
    ELSE LET child == node.children[i]
         IN  IF end <= child.start THEN Nothing
             ELSE IF start >= child.end
                  THEN forChildren(node, start, end, predicate, i + 1)
             ELSE IF start = child.start /\ end = child.end /\ Accepts(predicate, child)
                  THEN <<i>>
             ELSE LET foundInChildren == findNodeAtSpan(child, start, end - start, predicate)
                  IN  IF foundInChildren # Nothing
                      THEN <<i>> \o foundInChildren
                      ELSE forChildren(node, start, end, predicate, i + 1)

findNodeAtSpan(node, start, length, predicate) ==
    forChildren(node, start, start + length, predicate, 1)

EmptyTree == [start |-> 0, end |-> 0, kind |-> "SourceFile", children |-> <<>>]

NoSpanCall == [called |-> FALSE, start |-> 0, length |-> 0, predicate |-> "none",
               result |-> Nothing]

IdleSpan == tree = EmptyTree /\ spanCall = NoSpanCall

----------------------------------------------------------------------------
(* isInGeneratedCode: texts and the string functions it calls.  A text is a   *)
(* sequence of units: the pieces of the two markers, a line break, another    *)
(* character.  Offsets count units from 0, as the code's count characters.    *)

\* texts are made of at most this many chunks
MaxChunks == 3

\* '/*Ωignore_startΩ*/'
IGNORE_START == <<"/*", "ignore_start", "*/">>
\* '/*Ωignore_endΩ*/'
IGNORE_END == <<"/*", "ignore_end", "*/">>

NEWLINE == <<"\n">>

Chunks == {IGNORE_START, IGNORE_END, NEWLINE, <<"x">>}

RECURSIVE TextsOf(_)
TextsOf(n) ==
    IF n = 0 THEN {<<>>}
    ELSE TextsOf(n - 1) \cup {t \o c : t \in TextsOf(n - 1), c \in Chunks}

Texts == TextsOf(MaxChunks)

\* whether pattern occurs in str at 0-based index i
OccursAt(str, pattern, i) ==
    /\ 0 <= i
    /\ i + Len(pattern) <= Len(str)
    /\ \A k \in 1..Len(pattern) : str[i + k] = pattern[k]

\* String.prototype.lastIndexOf(pattern, position)
lastIndexOf(str, pattern, position) ==
    LET from == Min(Max(position, 0), Len(str))
        hits == {i \in 0..from : OccursAt(str, pattern, i)}
    IN  IF hits = {} THEN -1 ELSE CHOOSE i \in hits : \A j \in hits : j <= i

\* String.prototype.indexOf(pattern, position)
indexOf(str, pattern, position) ==
    LET from == Min(Max(position, 0), Len(str))
        hits == {i \in from..Len(str) : OccursAt(str, pattern, i)}
    IN  IF hits = {} THEN -1 ELSE CHOOSE i \in hits : \A j \in hits : i <= j

\* String.prototype.substring(indexStart, indexEnd): both clamped to the
\* string, and swapped when indexStart > indexEnd
substring(str, indexStart, indexEnd) ==
    LET a == Min(Max(indexStart, 0), Len(str))
        b == Min(Max(indexEnd, 0), Len(str))
    IN  SubSeq(str, Min(a, b) + 1, Max(a, b))

\* String.prototype.includes(pattern)
includes(str, pattern) == indexOf(str, pattern, 0) # -1

isInGeneratedCode(txt, start, end) ==
    LET lineStart == lastIndexOf(txt, NEWLINE, start)
        lineEnd == indexOf(txt, NEWLINE, end)
        lastStart == lastIndexOf(substring(txt, lineStart, start), IGNORE_START, Len(txt))
        lastEnd == lastIndexOf(substring(txt, lineStart, start), IGNORE_END, Len(txt))
    IN  lastStart > lastEnd /\ includes(substring(txt, end, lineEnd), IGNORE_END)

NoGenCall == [called |-> FALSE, start |-> 0, end |-> 0, result |-> FALSE]

IdleGen == text = <<>> /\ genCall = NoGenCall

Init == HostInit /\ IdleSpan /\ IdleGen

Next ==
    \/ WriteFile
    \/ DeleteFile
    \/ WatchFile
    \/ Close
    \/ Tick
    \/ ReadFile
    \/ FileExists
    \/ GetModifiedTime

Spec == Init /\ [][Next]_vars

----------------------------------------------------------------------------
(* History operators *)

Done(t) == timers[t].status \in {"ran", "skipped"}

\* how often callback cb was invoked with the notification of timer t
Count(cb, t) ==
    Cardinality({i \in DOMAIN delivered : delivered[i].cb = cb /\ delivered[i].timer = t})

\* the callbacks invoked with the notification of timer t, in order
DeliveredTo(t) ==
    LET own == SelectSeq(delivered, LAMBDA d : d.timer = t)
    IN  [i \in 1..Len(own) |-> own[i].cb]

Occurrences(cb, list) == Cardinality({i \in DOMAIN list : list[i] = cb})

WrittenKeys == {opLog[t].key : t \in {u \in DOMAIN opLog : opLog[u].op = "writeFile"}}

WatchedKeys == {FileMapKey(handles[h].path) : h \in DOMAIN handles}

OpsOn(key) == {t \in DOMAIN opLog : opLog[t].key = key}

LastOpOn(key) == CHOOSE t \in OpsOn(key) : \A u \in OpsOn(key) : u <= t

WritesOn(key) == {t \in OpsOn(key) : opLog[t].op = "writeFile"}

LastWriteOn(key) == CHOOSE t \in WritesOn(key) : \A u \in WritesOn(key) : u <= t

\* what the history says readFile returns for key
ExpectedContent(key) ==
    IF OpsOn(key) = {} THEN <<>>
    ELSE IF opLog[LastOpOn(key)].op = "writeFile" THEN opLog[LastOpOn(key)].data
    ELSE <<>>

NewTimer == timers'[Len(timers')]

SchedulesOne(key, kind) ==
    /\ Len(timers') = Len(timers) + 1
    /\ SubSeq(timers', 1, Len(timers)) = timers
    /\ FileMapKey(NewTimer.path) = key
    /\ NewTimer.kind = kind
    /\ NewTimer.status = "pending"

----------------------------------------------------------------------------
(* Claims on the virtual system *)

\* C1: writeFile(p, c) schedules exactly one notification for p, Created when
\* p was absent from the file table just before and Changed when it was
\* present; deleteFile(p) schedules exactly one Deleted notification when p
\* was present, and schedules nothing and changes no table when p was absent.
C1_OneNotificationPerOperation ==
    [][ (timers' # timers \/ virtualFs' # virtualFs \/ watchers' # watchers
            \/ watchTimeout' # watchTimeout \/ modifiedTime' # modifiedTime) =>
        /\ \A path \in RawPaths, data \in Contents :
              writeFile(path, data) =>
                  SchedulesOne(KeyOf(path),
                               IF KeyOf(path) \in DOMAIN virtualFs THEN "Changed"
                               ELSE "Created")
        /\ \A path \in RawPaths :
              deleteFile(path) =>
                  IF KeyOf(path) \in DOMAIN virtualFs
                  THEN SchedulesOne(KeyOf(path), "Deleted")
                  ELSE UNCHANGED <<virtualFs, watchers, watchTimeout, modifiedTime, timers>>
      ]_vars

\* a path was created, then changed
C1_Witness ==
    /\ Len(timers) = 2
    /\ timers[1].kind = "Created"
    /\ timers[2].kind = "Changed"
    /\ FileMapKey(timers[1].path) = FileMapKey(timers[2].path)

\* C2: a handle of watchFile(p, cb) closed after an operation on p scheduled a
\* notification and before that notification's turn: cb is never invoked with
\* that notification.
C2_ClosedBeforeTurnNeverInvoked ==
    \A t \in DOMAIN timers :
        \A h \in opLog[t].closedDuring : Count(handles[h].callback, t) = 0

\* the turn of a notification has passed whose watcher was closed in between
C2_Witness ==
    \E t \in DOMAIN timers :
        /\ Done(t)
        /\ \E h \in opLog[t].closedDuring : handles[h].callback \in Range(opLog[t].regAtOp)

\* C3: close() removes exactly cb from the watcher list of p: the other
\* callbacks stay, in order, and cb is gone.
C3_CloseRemovesExactlyCallback ==
    [][ \A h \in DOMAIN handles :
            close(h) =>
                LET key == FileMapKey(handles[h].path)
                IN  watchers'[key] =
                        SelectSeq(watchers[key], LAMBDA w : w # handles[h].callback)
      ]_vars

\* C4 as claimed: every callback registered for p when the notification was
\* scheduled, and whose own handle was not closed before the notification's
\* turn, is invoked exactly once with it (once for each of its registrations
\* on p), whatever else is interleaved, the close of other handles on p
\* included.
C4_InvokedWhateverElseCloses ==
    \A t \in DOMAIN timers :
        Done(t) =>
            \A cb \in Range(opLog[t].regAtOp) :
                (\A h \in opLog[t].closedDuring : handles[h].callback # cb)
                    => /\ Count(cb, t) >= 1
                       /\ Count(cb, t) = Occurrences(cb, opLog[t].regAtOp \o opLog[t].added)

\* C4 as amended: when no handle on p at all, cb's own or another's, is closed
\* before the notification's turn, every callback in p's list when the
\* notification was scheduled is invoked with it once per registration of it
\* on p at that turn.
C4_InvokedUnlessAnyCloseOnPath ==
    \A t \in DOMAIN timers :
        (Done(t) /\ opLog[t].closedDuring = {}) =>
            \A cb \in Range(opLog[t].regAtOp) :
                /\ Count(cb, t) >= 1
                /\ Count(cb, t) = Occurrences(cb, opLog[t].regAtOp \o opLog[t].added)

\* a watcher registered before the operation was notified at the turn, with
\* another watchFile on the path in between and no close
C4_Witness ==
    \E t \in DOMAIN timers :
        /\ timers[t].status = "ran"
        /\ opLog[t].closedDuring = {}
        /\ opLog[t].added # <<>>
        /\ \E cb \in Range(opLog[t].regAtOp) : Count(cb, t) = 1

\* C5 as claimed: the callbacks invoked with a notification are those
\* registered for p when the operation ran, less those disposed before the
\* delivery, and none registered after the operation returned.
C5_DeliveredToWatchersAtOperation ==
    \A t \in DOMAIN timers :
        timers[t].status = "ran" =>
            DeliveredTo(t) =
                SelectSeq(opLog[t].regAtOp,
                          LAMBDA cb : \A h \in opLog[t].closedDuring :
                                          handles[h].callback # cb)

\* C5 as amended: the callbacks invoked with a notification are those in the
\* list of exactly p when the notification is delivered: the ones registered
\* when the operation ran followed by the ones registered between the
\* operation and the delivery; a notification not delivered invokes nobody.
C5_DeliveredToWatchersAtDelivery ==
    /\ \A t \in DOMAIN timers :
          DeliveredTo(t) = IF timers[t].status = "ran"
                           THEN opLog[t].regAtOp \o opLog[t].added
                           ELSE <<>>
    /\ \A i \in DOMAIN delivered :
          /\ delivered[i].timer \in DOMAIN timers
          /\ FileMapKey(delivered[i].fileName) = opLog[delivered[i].timer].key
          /\ delivered[i].kind = timers[delivered[i].timer].kind

\* a callback registered after the operation received its notification
C5_Witness ==
    \E t \in DOMAIN timers :
        /\ timers[t].status = "ran"
        /\ opLog[t].added # <<>>
        /\ \E cb \in Range(opLog[t].added) : cb \notin Range(opLog[t].regAtOp) /\ Count(cb, t) = 1

\* C6: a callback that receives the events of two operations on one path
\* receives them in the order of the operations, and no callback runs before
\* the turn of its notification: none within the triggering operation.
C6_DeliveredInOperationOrder ==
    /\ \A i, j \in DOMAIN delivered :
          (/\ i < j
           /\ delivered[i].cb = delivered[j].cb
           /\ FileMapKey(delivered[i].fileName) = FileMapKey(delivered[j].fileName))
              => delivered[i].timer <= delivered[j].timer
    /\ \A i \in DOMAIN delivered :
          /\ delivered[i].timer \in DOMAIN timers
          /\ timers[delivered[i].timer].status = "ran"

\* one callback received the events of two operations on one path
C6_Witness ==
    \E i, j \in DOMAIN delivered :
        /\ i < j
        /\ delivered[i].cb = delivered[j].cb
        /\ FileMapKey(delivered[i].fileName) = FileMapKey(delivered[j].fileName)
        /\ delivered[i].timer < delivered[j].timer

\* C7: readFile(p) returns the content of the most recent writeFile(p, c) when
\* no deleteFile(p) came after it and undefined otherwise; fileExists(p) is
\* true in exactly the first case.
C7_ReadReturnsLastWrite ==
    \A path \in RawPaths :
        /\ readFile(path) = ExpectedContent(KeyOf(path))
        /\ fileExists(path) = (ExpectedContent(KeyOf(path)) # <<>>)

\* a path written twice, and a path written and deleted
C7_Witness ==
    /\ Len(opLog) = 2
    /\ opLog[1].op = "writeFile"
    /\ opLog[1].key = opLog[2].key
    /\ \E path \in RawPaths : KeyOf(path) = opLog[1].key /\ readFile(path) = opLog[2].data

\* a path written at least once has the time of its last write, deleted or not
TimesKept ==
    \A key \in WrittenKeys :
        /\ key \in DOMAIN modifiedTime
        /\ \E path \in RawPaths :
              KeyOf(path) = key /\ getModifiedTime(path) = <<opLog[LastWriteOn(key)].time>>

\* a path whose last operation deleted it is in no file table, and keeps its
\* watcher entry when it was watched
DeletedFromFileTableOnly ==
    \A key \in WrittenKeys :
        opLog[LastOpOn(key)].op = "deleteFile" =>
            /\ key \notin DOMAIN virtualFs
            /\ key \in WatchedKeys => key \in DOMAIN watchers

\* C10 as claimed: the timestamp table and the watcher registry hold an entry
\* for a path only if writeFile was called on it; deleteFile removes the path
\* from the file table only, so getModifiedTime(p) still returns the last
\* write time after p is deleted.
C10_AuxiliaryOnlyForWritten ==
    /\ DOMAIN modifiedTime \subseteq WrittenKeys
    /\ DOMAIN watchers \subseteq WrittenKeys
    /\ TimesKept
    /\ DeletedFromFileTableOnly

\* C10 as amended: the timestamp table holds an entry for a path only if
\* writeFile was called on it, the watcher registry only if watchFile was
\* called on it (written or not); deleteFile removes the path from the file
\* table only, so getModifiedTime(p) still returns the last write time.
C10_AuxiliaryOnlyForWrittenOrWatched ==
    /\ DOMAIN modifiedTime \subseteq WrittenKeys
    /\ DOMAIN watchers \subseteq WatchedKeys
    /\ TimesKept
    /\ DeletedFromFileTableOnly

\* a deleted path keeps its timestamp, and a path never written is watched
C10_Witness ==
    /\ \E key \in DOMAIN modifiedTime : key \notin DOMAIN virtualFs
    /\ \E key \in DOMAIN watchers : key \notin WrittenKeys

----------------------------------------------------------------------------
(* isInGeneratedCode: specification and claim *)

\* the host at rest while a pure function is exercised
HostIdle ==
    /\ useCaseSensitiveFileNames = TRUE
    /\ virtualFs = EmptyMap
    /\ watchers = EmptyMap
    /\ watchTimeout = EmptyMap
    /\ modifiedTime = EmptyMap
    /\ timers = <<>>
    /\ handles = <<>>
    /\ clock = 0
    /\ opLog = <<>>
    /\ delivered = <<>>

InitGen == HostIdle /\ IdleSpan /\ text \in Texts /\ genCall = NoGenCall

IsInGeneratedCode ==
    \E start \in 0..Len(text), end \in 0..Len(text) :
        /\ start <= end
        /\ genCall' = [called |-> TRUE, start |-> start, end |-> end,
                       result |-> isInGeneratedCode(text, start, end)]
        /\ UNCHANGED <<hostVars, spanVars, text>>

NextGen == IsInGeneratedCode

SpecGen == InitGen /\ [][NextGen]_vars

\* the offset at which the line holding offset pos begins
LineBegin(txt, pos) ==
    LET breaks == {i \in 0..(pos - 1) : OccursAt(txt, NEWLINE, i)}
    IN  IF breaks = {} THEN 0 ELSE 1 + CHOOSE i \in breaks : \A j \in breaks : j <= i

\* the offset at which the line holding offset pos ends: its line break, or
\* the end of the text
LineFinish(txt, pos) ==
    LET breaks == {i \in pos..Len(txt) : OccursAt(txt, NEWLINE, i)}
    IN  IF breaks = {} THEN Len(txt) ELSE CHOOSE i \in breaks : \A j \in breaks : i <= j

\* an ignore-start marker precedes start on its line, no ignore-end marker
\* between that marker and start
OpenMarkerBefore(txt, start) ==
    \E i \in LineBegin(txt, start)..start :
        /\ OccursAt(txt, IGNORE_START, i)
        /\ i + Len(IGNORE_START) <= start
        /\ ~ \E j \in (i + 1)..start :
                OccursAt(txt, IGNORE_END, j) /\ j + Len(IGNORE_END) <= start

\* an ignore-end marker lies between end and the end of its line
CloseMarkerAfter(txt, end) ==
    \E j \in end..LineFinish(txt, end) :
        OccursAt(txt, IGNORE_END, j) /\ j + Len(IGNORE_END) <= LineFinish(txt, end)

\* C9: isInGeneratedCode(text, s, e) returns true only when an ignore-start
\* marker precedes s on the same line with no ignore-end marker between it and
\* s, and an ignore-end marker occurs between e and the end of that line; with
\* or without a line break after e.
C9_TrueOnlyInsideOpenRegion ==
    (genCall.called /\ genCall.result) =>
        /\ OpenMarkerBefore(text, genCall.start)
        /\ CloseMarkerAfter(text, genCall.end)

\* the same, for the calls with a line break at or after e
C9_TrueOnlyInsideOpenRegionBeforeLineBreak ==
    (genCall.called /\ genCall.result /\ indexOf(text, NEWLINE, genCall.end) # -1) =>
        /\ OpenMarkerBefore(text, genCall.start)
        /\ CloseMarkerAfter(text, genCall.end)

----------------------------------------------------------------------------
(* findNodeAtSpan: specification and claim *)

InitSpan == HostIdle /\ IdleGen /\ tree \in Trees /\ spanCall = NoSpanCall

FindNodeAtSpan ==
    \E start \in 0..MaxPos, length \in 0..MaxPos, predicate \in Predicates :
        /\ start + length <= MaxPos
        /\ spanCall' = [called |-> TRUE, start |-> start, length |-> length,
                        predicate |-> predicate,
                        result |-> findNodeAtSpan(tree, start, length, predicate)]
        /\ UNCHANGED <<hostVars, genVars, tree>>

NextSpan == FindNodeAtSpan

SpecSpan == InitSpan /\ [][NextSpan]_vars

RECURSIVE NodeAt(_, _)
NodeAt(node, path) ==
    IF path = <<>> THEN node ELSE NodeAt(node.children[Head(path)], Tail(path))

\* the descendants of node
RECURSIVE PathsOf(_)
PathsOf(node) ==
    UNION { {<<i>>} \cup {<<i>> \o q : q \in PathsOf(node.children[i])} :
            i \in DOMAIN node.children }

IsProperPrefix(p, q) == Len(p) < Len(q) /\ SubSeq(q, 1, Len(p)) = p

\* p comes before q in document order: an ancestor before its descendants, an
\* earlier sibling's subtree before a later sibling's
Before(p, q) ==
    \/ IsProperPrefix(p, q)
    \/ \E k \in 1..Min(Len(p), Len(q)) :
          /\ SubSeq(p, 1, k - 1) = SubSeq(q, 1, k - 1)
          /\ p[k] < q[k]

\* the descendants whose range is exactly the span and which the predicate accepts
Matches(root, start, length, predicate) ==
    {p \in PathsOf(root) :
        /\ NodeAt(root, p).start = start
        /\ NodeAt(root, p).end = start + length
        /\ Accepts(predicate, NodeAt(root, p))}

CallMatches == Matches(tree, spanCall.start, spanCall.length, spanCall.predicate)

\* C8 as claimed: findNodeAtSpan returns the deepest descendant whose range is
\* exactly the span and which satisfies the predicate, and returns nothing
\* only when no descendant has that range and satisfies the predicate.
C8_ReturnsDeepestExactMatch ==
    spanCall.called =>
        IF CallMatches = {} THEN spanCall.result = Nothing
        ELSE /\ spanCall.result \in CallMatches
             /\ ~ \E q \in CallMatches : IsProperPrefix(spanCall.result, q)

\* C8 as amended: for a span of positive length, findNodeAtSpan returns the
\* first descendant in document order (the outermost, when nested nodes share
\* the range) whose range is exactly the span and which satisfies the
\* predicate, and returns nothing only when there is none; for a span of
\* length 0 it returns nothing.
C8_ReturnsFirstExactMatch ==
    spanCall.called =>
        IF spanCall.length = 0 \/ CallMatches = {} THEN spanCall.result = Nothing
        ELSE /\ spanCall.result \in CallMatches
             /\ \A q \in CallMatches \ {spanCall.result} : Before(spanCall.result, q)

\* a node and its only child share the span asked for: the node is returned
C8_Witness ==
    /\ spanCall.called
    /\ spanCall.length > 0
    /\ spanCall.result # Nothing
    /\ \E q \in CallMatches : IsProperPrefix(spanCall.result, q)

====
